---- MODULE Spec2Model ----
(***************************************************************************)
(* The three fullstack operations of swarm/environment/operations/fullstack *)
(* (DesignToFrontend, DesignToBackend, FrontendBackendSync).  Python dicts  *)
(* are functions over string keys, lists are sequences, an absent scalar is *)
(* the string None.  Each arun is one action applied to an inputs mapping   *)
(* drawn in the initial state.                                              *)
(***************************************************************************)
EXTENDS Integers, Sequences, FiniteSets, TLC

VARIABLES inputs, called, sync_results, adjustments, raised, result

vars == <<inputs, called, sync_results, adjustments, raised, result>>

\* ------------------------------------------------------------ Python values

\* None where a scalar (a string) is expected.
None == "None"

\* None where a mapping is expected (a lookup that found nothing, no return value).
NoneObj == [NoneType |-> TRUE]

\* d.get(k, default)
Get(d, k, default) == IF k \in DOMAIN d THEN d[k] ELSE default

\* Truth value of a mapping-or-None, as `if x:` tests it.
Truthy(x) == x # NoneObj /\ DOMAIN x # {}

\* ------------------------------------------------------------ bounds

\* Longest frontend api_services list, longest frontend models list, and longest
\* list under a key of a design.
MaxServices == 2
MaxModels == 1
MaxDesignEntries == 2

\* ------------------------------------------------------------ input universes

SeqsUpTo(S, n) == UNION {[1..k -> S] : k \in 0..n}

\* An optional value: <<>> is "key absent", <<v>> is "key present with value v".
Opt(S) == {<<>>} \cup {<<v>> : v \in S}

Field(k, o) == IF o = <<>> THEN <<>> ELSE (k :> o[1])

ServiceEntries ==
    { [name |-> "UserService", methods |-> <<"GET", "POST">>],
      [name |-> "OrderService"],
      <<>> }

EndpointLists ==
    { <<>>,
      << [path |-> "/users", methods |-> <<"POST", "GET">>] >>,
      << [path |-> "/users", methods |-> <<"GET">>] >>,
      << [path |-> "/orders"], [path |-> "/users", methods |-> <<"POST", "GET">>] >> }

FrontendModelEntries ==
    { [name |-> "User", properties |-> <<"id", "email">>],
      [name |-> "Order"] }

BackendModelLists ==
    { <<>>,
      << [name |-> "User", properties |-> <<"email", "id">>] >>,
      << [name |-> "User", properties |-> <<"id">>], [name |-> "Order"] >> }

AuthConfigs ==
    { <<>>,
      [mechanism |-> "JWT"],
      [mechanism |-> "JWT", roles |-> <<"admin">>],
      [mechanism |-> "OAuth2", roles |-> <<"admin">>],
      [mechanism |-> "JWT", roles |-> <<"user", "admin">>] }

FrontendImpls ==
    { [api_services |-> s, models |-> m, auth_config |-> a] :
        s \in SeqsUpTo(ServiceEntries, MaxServices),
        m \in SeqsUpTo(FrontendModelEntries, MaxModels),
        a \in AuthConfigs }
    \cup { <<>>, [auth_config |-> [mechanism |-> "JWT"]] }

BackendImpls ==
    { [api_endpoints |-> e, data_models |-> m, security_config |-> a] :
        e \in EndpointLists, m \in BackendModelLists, a \in AuthConfigs }
    \cup { <<>>, [security_config |-> [mechanism |-> "OAuth2"]] }

SyncInputs ==
    { Field("frontend_implementation", f) @@ Field("backend_implementation", b) :
        f \in Opt(FrontendImpls), b \in Opt(BackendImpls) }

ComponentEntries ==
    { [name |-> "LoginForm", requirements |-> <<"validation">>, dependencies |-> <<"AuthService">>],
      [name |-> "NavBar"] }

DesignEndpointEntries ==
    { [path |-> "/users", method |-> "GET", data_model |-> "User",
       request_model |-> "UserQuery", response_model |-> "UserDto", security |-> <<"admin">>],
      [path |-> "/orders"] }

DesignModelEntries ==
    { [name |-> "User", properties |-> <<"id">>, validations |-> <<"required">>,
       relationships |-> <<"Order">>],
      [name |-> "Order"] }

DesignServiceLists ==
    { <<>>,
      << [name |-> "UserService", operations |-> <<"create">>, dependencies |-> <<"Repo">>,
          data_access |-> [orm |-> "EF"]] >>,
      << [name |-> "Mailer"], [name |-> "Mailer"] >> }

Designs ==
    { Field("ui_components", c) @@ Field("api_endpoints", e) @@ Field("data_models", m)
        @@ Field("services", s) @@ Field("frontend_dependencies", fd)
        @@ Field("backend_dependencies", bd) :
        c \in Opt(SeqsUpTo(ComponentEntries, MaxDesignEntries)),
        e \in Opt(SeqsUpTo(DesignEndpointEntries, MaxDesignEntries)),
        m \in Opt(SeqsUpTo(DesignModelEntries, MaxDesignEntries)),
        s \in Opt(DesignServiceLists),
        fd \in Opt({<<"rxjs">>}),
        bd \in Opt({<<"EFCore", "Serilog">>}) }
    \cup { [title |-> "Shop"] }

DesignInputs == { Field("design", d) : d \in Opt(Designs) }

\* ------------------------------------------------------------ comparison helpers
\* FrontendBackendSync calls five helpers that frontend_backend_sync.py does not
\* define; they follow the design document's description of the three axes.

\* "same logical name/path": the route a frontend service name stands for.
ServiceRoute(name) ==
    CASE name = "UserService" -> "/users"
      [] name = "OrderService" -> "/orders"
      [] OTHER -> None

InSeq(x, s) == \E i \in 1..Len(s) : s[i] = x

\* The elements of a missing from b, then the elements of b missing from a.
ListDiff(a, b) ==
    SelectSeq(a, LAMBDA x : ~InSeq(x, b)) \o SelectSeq(b, LAMBDA x : ~InSeq(x, a))

\* The first element of s at one of the positions hits, None when there is none.
FirstAt(s, hits) ==
    IF hits = {} THEN NoneObj
    ELSE s[CHOOSE j \in hits : \A k \in hits : j <= k]

_find_matching_endpoint(service, backend_endpoints) ==
    FirstAt(backend_endpoints,
            {j \in 1..Len(backend_endpoints) :
                /\ Get(service, "name", None) # None
                /\ Get(backend_endpoints[j], "path", None)
                     = ServiceRoute(Get(service, "name", None))})

_find_matching_model(f_model, backend_models) ==
    FirstAt(backend_models,
            {j \in 1..Len(backend_models) :
                /\ Get(f_model, "name", None) # None
                /\ Get(backend_models[j], "name", None) = Get(f_model, "name", None)})

_compare_methods(frontend_methods, backend_methods) == ListDiff(frontend_methods, backend_methods)

_compare_properties(frontend_props, backend_props) == ListDiff(frontend_props, backend_props)

_compare_roles(frontend_roles, backend_roles) == ListDiff(frontend_roles, backend_roles)

\* ------------------------------------------------------------ FrontendBackendSync

\* Variant: a non-empty methods diff is reported as its own status.
_validate_api_contracts_entry_method_status(service, backend_endpoints) ==
    LET matching_endpoint == _find_matching_endpoint(service, backend_endpoints)
        diff == _compare_methods(Get(service, "methods", <<>>),
                                 Get(matching_endpoint, "methods", <<>>))
    IN  IF Truthy(matching_endpoint)
        THEN [type |-> "api_contract",
              status |-> IF diff = <<>> THEN "matched" ELSE "method_mismatch",
              frontend_service |-> Get(service, "name", None),
              backend_endpoint |-> Get(matching_endpoint, "path", None),
              methods |-> diff]
        ELSE [type |-> "api_contract",
              status |-> "missing_endpoint",
              frontend_service |-> Get(service, "name", None)]

\* Variant: the test of matching_endpoint is inverted.
_validate_api_contracts_entry_inverted(service, backend_endpoints) ==
    LET matching_endpoint == _find_matching_endpoint(service, backend_endpoints)
    IN  IF ~Truthy(matching_endpoint)
        THEN [type |-> "api_contract",
              status |-> "matched",
              frontend_service |-> Get(service, "name", None),
              backend_endpoint |-> Get(matching_endpoint, "path", None),
              methods |-> _compare_methods(Get(service, "methods", <<>>),
                                           Get(matching_endpoint, "methods", <<>>))]
        ELSE [type |-> "api_contract",
              status |-> "missing_endpoint",
              frontend_service |-> Get(service, "name", None)]

_validate_api_contracts_entry(service, backend_endpoints) ==
    LET matching_endpoint == _find_matching_endpoint(service, backend_endpoints)
    IN  IF Truthy(matching_endpoint)
        THEN [type |-> "api_contract",
              status |-> "matched",
              frontend_service |-> Get(service, "name", None),
              backend_endpoint |-> Get(matching_endpoint, "path", None),
              methods |-> _compare_methods(Get(service, "methods", <<>>),
                                           Get(matching_endpoint, "methods", <<>>))]
        ELSE [type |-> "api_contract",
              status |-> "missing_endpoint",
              frontend_service |-> Get(service, "name", None)]

_validate_api_contracts(frontend_services, backend_endpoints) ==
    [i \in 1..Len(frontend_services) |->
        _validate_api_contracts_entry(frontend_services[i], backend_endpoints)]

_validate_data_models_entry(f_model, backend_models) ==
    LET b_model == _find_matching_model(f_model, backend_models)
    IN  IF Truthy(b_model)
        THEN [type |-> "data_model",
              status |-> "matched",
              model_name |-> Get(f_model, "name", None),
              property_diffs |-> _compare_properties(Get(f_model, "properties", <<>>),
                                                     Get(b_model, "properties", <<>>))]
        ELSE [type |-> "data_model",
              status |-> "missing_model",
              model_name |-> Get(f_model, "name", None)]

_validate_data_models(frontend_models, backend_models) ==
    [i \in 1..Len(frontend_models) |->
        _validate_data_models_entry(frontend_models[i], backend_models)]

_validate_auth_implementation(frontend_auth, backend_auth) ==
    LET role_diffs == _compare_roles(Get(frontend_auth, "roles", <<>>),
                                     Get(backend_auth, "roles", <<>>))
    IN  (IF Get(frontend_auth, "mechanism", None) # Get(backend_auth, "mechanism", None)
         THEN << [type |-> "auth",
                  status |-> "mismatch",
                  component |-> "mechanism",
                  frontend |-> Get(frontend_auth, "mechanism", None),
                  backend |-> Get(backend_auth, "mechanism", None)] >>
         ELSE <<>>)
        \o
        (IF role_diffs # <<>>
         THEN << [type |-> "auth",
                  status |-> "role_mismatch",
                  differences |-> role_diffs] >>
         ELSE <<>>)

\* Variant: the data model axis is appended before the API contract axis.
_analyze_sync_points_models_first(frontend, backend) ==
    _validate_data_models(Get(frontend, "models", <<>>),
                          Get(backend, "data_models", <<>>))
    \o _validate_api_contracts(Get(frontend, "api_services", <<>>),
                               Get(backend, "api_endpoints", <<>>))
    \o _validate_auth_implementation(Get(frontend, "auth_config", <<>>),
                                     Get(backend, "security_config", <<>>))

_analyze_sync_points(frontend, backend) ==
    _validate_api_contracts(Get(frontend, "api_services", <<>>),
                            Get(backend, "api_endpoints", <<>>))
    \o _validate_data_models(Get(frontend, "models", <<>>),
                             Get(backend, "data_models", <<>>))
    \o _validate_auth_implementation(Get(frontend, "auth_config", <<>>),
                                     Get(backend, "security_config", <<>>))

\* The outcome of a step that may raise: the buckets so far and the exception.
Ok(adj) == [adjustments |-> adj, raised |-> None]
Raise(adj, exc) == [adjustments |-> adj, raised |-> exc]

\* result[k] for every k of keys succeeds.
HasKeys(d, keys) == keys \subseteq DOMAIN d

_handle_api_mismatch(r, adj) ==
    IF r["status"] = "missing_endpoint"
    THEN IF HasKeys(r, {"frontend_service"})
         THEN Ok([adj EXCEPT !.backend =
                    Append(@, [type |-> "create_endpoint",
                               service |-> r["frontend_service"]])])
         ELSE Raise(adj, "KeyError")
    ELSE IF r["status"] = "method_mismatch"
    THEN IF HasKeys(r, {"frontend_service", "methods"})
         THEN Ok([adj EXCEPT !.critical =
                    Append(@, [type |-> "api_method_mismatch",
                               service |-> r["frontend_service"],
                               details |-> r["methods"]])])
         ELSE Raise(adj, "KeyError")
    ELSE Ok(adj)

\* Variant: create_model goes to the frontend bucket.
_handle_model_mismatch_frontend_bucket(r, adj) ==
    IF r["status"] = "missing_model"
    THEN IF HasKeys(r, {"model_name"})
         THEN Ok([adj EXCEPT !.frontend =
                    Append(@, [type |-> "create_model",
                               model |-> r["model_name"]])])
         ELSE Raise(adj, "KeyError")
    ELSE Ok(adj)

_handle_model_mismatch(r, adj) ==
    IF r["status"] = "missing_model"
    THEN IF HasKeys(r, {"model_name"})
         THEN Ok([adj EXCEPT !.backend =
                    Append(@, [type |-> "create_model",
                               model |-> r["model_name"]])])
         ELSE Raise(adj, "KeyError")
    ELSE IF r["status"] = "property_mismatch"
    THEN IF HasKeys(r, {"model_name", "property_diffs"})
         THEN Ok([adj EXCEPT !.critical =
                    Append(@, [type |-> "model_property_mismatch",
                               model |-> r["model_name"],
                               details |-> r["property_diffs"]])])
         ELSE Raise(adj, "KeyError")
    ELSE Ok(adj)

\* Variant: the two sides' values are swapped in the details.
_handle_auth_mismatch_swapped(r, adj) ==
    IF r["type"] = "auth"
    THEN IF HasKeys(r, {"frontend", "backend"})
         THEN Ok([adj EXCEPT !.critical =
                    Append(@, [type |-> "auth_mechanism_mismatch",
                               details |-> [frontend |-> r["backend"],
                                            backend |-> r["frontend"]]])])
         ELSE Raise(adj, "KeyError")
    ELSE Ok(adj)

_handle_auth_mismatch(r, adj) ==
    IF r["type"] = "auth"
    THEN IF HasKeys(r, {"frontend", "backend"})
         THEN Ok([adj EXCEPT !.critical =
                    Append(@, [type |-> "auth_mechanism_mismatch",
                               details |-> [frontend |-> r["frontend"],
                                            backend |-> r["backend"]]])])
         ELSE Raise(adj, "KeyError")
    ELSE Ok(adj)

\* Variant: findings are dispatched on their type alone, whatever their status.
_generate_adjustments_step_any_status(r, adj) ==
    IF r["type"] = "api_contract"
    THEN Ok([adj EXCEPT !.backend =
               Append(@, [type |-> "create_endpoint", service |-> r["frontend_service"]])])
    ELSE IF r["type"] = "data_model"
    THEN Ok([adj EXCEPT !.backend =
               Append(@, [type |-> "create_model", model |-> r["model_name"]])])
    ELSE _handle_auth_mismatch(r, adj)

\* The body of the loop of _generate_adjustments for one finding.
_generate_adjustments_step(r, adj) ==
    IF r["status"] # "matched"
    THEN IF r["type"] = "api_contract" THEN _handle_api_mismatch(r, adj)
         ELSE IF r["type"] = "data_model" THEN _handle_model_mismatch(r, adj)
         ELSE IF r["type"] = "auth" THEN _handle_auth_mismatch(r, adj)
         ELSE Ok(adj)
    ELSE Ok(adj)

\* The loop from finding i on; an exception ends it.
RECURSIVE _generate_adjustments_loop(_, _, _)
_generate_adjustments_loop(results, i, adj) ==
    IF i > Len(results) THEN Ok(adj)
    ELSE LET st == _generate_adjustments_step(results[i], adj)
         IN  IF st.raised # None THEN st
             ELSE _generate_adjustments_loop(results, i + 1, st.adjustments)

EmptyAdjustments == [frontend |-> <<>>, backend |-> <<>>, critical |-> <<>>]

_generate_adjustments(results) == _generate_adjustments_loop(results, 1, EmptyAdjustments)

FrontendBackendSync_arun ==
    /\ called = "none"
    /\ LET frontend_impl == Get(inputs, "frontend_implementation", <<>>)
           backend_impl == Get(inputs, "backend_implementation", <<>>)
           sr == _analyze_sync_points(frontend_impl, backend_impl)
           out == _generate_adjustments(sr)
       IN  /\ sync_results' = sr
           /\ adjustments' = out.adjustments
           /\ raised' = out.raised
           /\ result' = IF out.raised = None
                        THEN [sync_results |-> sr, adjustments_needed |-> out.adjustments]
                        ELSE NoneObj
    /\ called' = "frontend_backend_sync"
    /\ UNCHANGED inputs

\* ------------------------------------------------------------ DesignToFrontend

_create_component_tasks(components) ==
    [i \in 1..Len(components) |->
        [type |-> "component",
         name |-> Get(components[i], "name", None),
         requirements |-> Get(components[i], "requirements", <<>>),
         dependencies |-> Get(components[i], "dependencies", <<>>)]]

DesignToFrontend_create_service_tasks(endpoints) ==
    [i \in 1..Len(endpoints) |->
        [type |-> "service",
         endpoint |-> Get(endpoints[i], "path", None),
         method |-> Get(endpoints[i], "method", None),
         data_model |-> Get(endpoints[i], "data_model", None)]]

_extract_frontend_tasks(design) ==
    (IF "ui_components" \in DOMAIN design
     THEN _create_component_tasks(design["ui_components"]) ELSE <<>>)
    \o (IF "api_endpoints" \in DOMAIN design
        THEN DesignToFrontend_create_service_tasks(design["api_endpoints"]) ELSE <<>>)

\* The mapping DesignToFrontend.arun returns for a design.
DesignToFrontend_return(design) ==
    [frontend_tasks |-> _extract_frontend_tasks(design),
     tech_stack |-> "Angular",
     dependencies |-> Get(design, "frontend_dependencies", <<>>)]

DesignToFrontend_arun ==
    /\ called = "none"
    /\ LET design == Get(inputs, "design", <<>>)
       IN  result' = DesignToFrontend_return(design)
    /\ called' = "design_to_frontend"
    /\ UNCHANGED <<inputs, sync_results, adjustments, raised>>

\* ------------------------------------------------------------ DesignToBackend

_create_api_tasks(endpoints) ==
    [i \in 1..Len(endpoints) |->
        [type |-> "controller",
         endpoint |-> Get(endpoints[i], "path", None),
         method |-> Get(endpoints[i], "method", None),
         request_model |-> Get(endpoints[i], "request_model", None),
         response_model |-> Get(endpoints[i], "response_model", None),
         security |-> Get(endpoints[i], "security", <<>>)]]

_create_model_tasks(models) ==
    [i \in 1..Len(models) |->
        [type |-> "model",
         name |-> Get(models[i], "name", None),
         properties |-> Get(models[i], "properties", <<>>),
         validations |-> Get(models[i], "validations", <<>>),
         relationships |-> Get(models[i], "relationships", <<>>)]]

DesignToBackend_create_service_tasks(services) ==
    [i \in 1..Len(services) |->
        [type |-> "service",
         name |-> Get(services[i], "name", None),
         operations |-> Get(services[i], "operations", <<>>),
         dependencies |-> Get(services[i], "dependencies", <<>>),
         data_access |-> Get(services[i], "data_access", <<>>)]]

\* Variant: the model tasks are emitted before the controller tasks.
_extract_backend_tasks_models_first(design) ==
    (IF "data_models" \in DOMAIN design
     THEN _create_model_tasks(design["data_models"]) ELSE <<>>)
    \o (IF "api_endpoints" \in DOMAIN design
        THEN _create_api_tasks(design["api_endpoints"]) ELSE <<>>)
    \o (IF "services" \in DOMAIN design
        THEN DesignToBackend_create_service_tasks(design["services"]) ELSE <<>>)

_extract_backend_tasks(design) ==
    (IF "api_endpoints" \in DOMAIN design
     THEN _create_api_tasks(design["api_endpoints"]) ELSE <<>>)
    \o (IF "data_models" \in DOMAIN design
        THEN _create_model_tasks(design["data_models"]) ELSE <<>>)
    \o (IF "services" \in DOMAIN design
        THEN DesignToBackend_create_service_tasks(design["services"]) ELSE <<>>)

\* Variant: the tech stack and dependencies key of the frontend operation are kept.
DesignToBackend_return_copied(design) ==
    [backend_tasks |-> _extract_backend_tasks(design),
     tech_stack |-> "Angular",
     dependencies |-> Get(design, "frontend_dependencies", <<>>)]

\* The mapping DesignToBackend.arun returns for a design.
DesignToBackend_return(design) ==
    [backend_tasks |-> _extract_backend_tasks(design),
     tech_stack |-> ".NET Core",
     dependencies |-> Get(design, "backend_dependencies", <<>>)]

DesignToBackend_arun ==
    /\ called = "none"
    /\ LET design == Get(inputs, "design", <<>>)
       IN  result' = DesignToBackend_return(design)
    /\ called' = "design_to_backend"
    /\ UNCHANGED <<inputs, sync_results, adjustments, raised>>

\* ------------------------------------------------------------ specifications

\* No operation has been called yet on the inputs.
NotCalled ==
    /\ called = "none"
    /\ sync_results = <<>>
    /\ adjustments = EmptyAdjustments
    /\ raised = None
    /\ result = NoneObj

InitSync == inputs \in SyncInputs /\ NotCalled

NextSync == FrontendBackendSync_arun

SpecSync == InitSync /\ [][NextSync]_vars

InitDesign == inputs \in DesignInputs /\ NotCalled

NextDesign == DesignToFrontend_arun \/ DesignToBackend_arun

SpecDesign == InitDesign /\ [][NextDesign]_vars

\* ------------------------------------------------------------ properties: reconciliation

SyncDone == called = "frontend_backend_sync"

\* What the call was given, read off the inputs.
InFrontend == Get(inputs, "frontend_implementation", <<>>)
InBackend == Get(inputs, "backend_implementation", <<>>)
InServices == Get(InFrontend, "api_services", <<>>)
InEndpoints == Get(InBackend, "api_endpoints", <<>>)
InModels == Get(InFrontend, "models", <<>>)
InBackendModels == Get(InBackend, "data_models", <<>>)
InFrontendMechanism == Get(Get(InFrontend, "auth_config", <<>>), "mechanism", None)
InBackendMechanism == Get(Get(InBackend, "security_config", <<>>), "mechanism", None)
InFrontendRoles == Get(Get(InFrontend, "auth_config", <<>>), "roles", <<>>)
InBackendRoles == Get(Get(InBackend, "security_config", <<>>), "roles", <<>>)

Elems(s) == {s[i] : i \in 1..Len(s)}
MapSeq(F(_), s) == [i \in 1..Len(s) |-> F(s[i])]
CountIf(P(_), s) == Cardinality({i \in 1..Len(s) : P(s[i])})

MechanismsDiffer == InFrontendMechanism # InBackendMechanism
RolesDiffer == Elems(InFrontendRoles) # Elems(InBackendRoles)

\* The backend endpoints a service corresponds to, as positions of InEndpoints.
EndpointsFor(service) ==
    {j \in 1..Len(InEndpoints) :
        /\ "name" \in DOMAIN service
        /\ "path" \in DOMAIN InEndpoints[j]
        /\ InEndpoints[j]["path"] = ServiceRoute(service["name"])}

ModelsFor(f_model) ==
    {j \in 1..Len(InBackendModels) :
        /\ "name" \in DOMAIN f_model
        /\ "name" \in DOMAIN InBackendModels[j]
        /\ InBackendModels[j]["name"] = f_model["name"]}

Min(S) == CHOOSE x \in S : \A y \in S : x <= y

AuthFindings == SelectSeq(sync_results, LAMBDA r : r.type = "auth")
NonMatched == SelectSeq(sync_results, LAMBDA r : r.status # "matched")
AllAdjustments == adjustments.frontend \o adjustments.backend \o adjustments.critical

\* C1: FrontendBackendSync.arun never raises: every call returns a mapping with
\* sync_results and adjustments_needed = {frontend, backend, critical}, also when
\* the declared auth mechanisms and/or roles differ.
C1_ArunIsTotal ==
    SyncDone =>
        /\ raised = None
        /\ DOMAIN result = {"sync_results", "adjustments_needed"}
        /\ DOMAIN result.adjustments_needed = {"frontend", "backend", "critical"}

\* C2: no adjustment is derived from a matched finding: there are at most as many
\* adjustments as non-matched findings, no create_endpoint / create_model names a
\* service / model whose finding is matched, and when every finding is matched
\* the three buckets are empty.
C2_NoAdjustmentForMatched ==
    SyncDone =>
        /\ Len(AllAdjustments) <= Len(NonMatched)
        /\ \A i \in 1..Len(AllAdjustments) : \A j \in 1..Len(sync_results) :
             LET a == AllAdjustments[i]
                 r == sync_results[j]
             IN  r.status = "matched" =>
                   /\ ~(a.type = "create_endpoint" /\ r.type = "api_contract"
                        /\ a.service = r.frontend_service)
                   /\ ~(a.type = "create_model" /\ r.type = "data_model"
                        /\ a.model = r.model_name)
        /\ (NonMatched = <<>> => adjustments = EmptyAdjustments)

C2_Witness ==
    /\ SyncDone
    /\ raised = None
    /\ \E j \in 1..Len(sync_results) :
         sync_results[j].status = "matched" /\ sync_results[j].type = "api_contract"
         /\ sync_results[j].methods # <<>>
    /\ \E j \in 1..Len(sync_results) :
         sync_results[j].status = "matched" /\ sync_results[j].type = "data_model"
    /\ Len(adjustments.backend) = 1
    /\ Len(adjustments.critical) = 1

\* The adjustment the backend bucket holds for a missing_endpoint / missing_model finding.
BackendAdjustmentOf(r) ==
    IF r.status = "missing_endpoint"
    THEN [type |-> "create_endpoint", service |-> r.frontend_service]
    ELSE [type |-> "create_model", model |-> r.model_name]

\* C3: the backend bucket holds exactly one adjustment per missing_endpoint or
\* missing_model finding, in the order of sync_results: create_endpoint with the
\* name of each frontend service that has no matching backend endpoint, then
\* create_model with the name of each frontend model that has no matching
\* backend model; nothing else.
C3_BackendBucket ==
    SyncDone =>
        /\ adjustments.backend =
             MapSeq(BackendAdjustmentOf,
                    SelectSeq(sync_results,
                              LAMBDA r : r.status \in {"missing_endpoint", "missing_model"}))
        /\ adjustments.backend =
             MapSeq(LAMBDA s : [type |-> "create_endpoint", service |-> Get(s, "name", None)],
                    SelectSeq(InServices, LAMBDA s : EndpointsFor(s) = {}))
             \o MapSeq(LAMBDA m : [type |-> "create_model", model |-> Get(m, "name", None)],
                       SelectSeq(InModels, LAMBDA m : ModelsFor(m) = {}))
        /\ (raised = None => result.adjustments_needed.backend = adjustments.backend)

C3_Witness ==
    /\ SyncDone
    /\ raised = None
    /\ Len(adjustments.backend) = 3
    /\ adjustments.backend[1].type = "create_endpoint"
    /\ adjustments.backend[2].type = "create_endpoint"
    /\ adjustments.backend[1] # adjustments.backend[2]
    /\ adjustments.backend[3].type = "create_model"
    /\ Len(AuthFindings) = 1

\* C4: when the declared mechanisms differ and the declared roles do not, there
\* is exactly one auth finding (status mismatch, component mechanism), the
\* critical bucket holds exactly one auth_mechanism_mismatch adjustment whose
\* details carry the two input mechanisms unchanged, and the frontend and backend
\* buckets get nothing from the auth axis.
C4_MechanismMismatch ==
    (SyncDone /\ MechanismsDiffer /\ ~RolesDiffer) =>
        /\ raised = None
        /\ Len(AuthFindings) = 1
        /\ AuthFindings[1].status = "mismatch"
        /\ AuthFindings[1].component = "mechanism"
        /\ adjustments.critical =
             << [type |-> "auth_mechanism_mismatch",
                 details |-> [frontend |-> InFrontendMechanism,
                              backend |-> InBackendMechanism]] >>
        /\ adjustments.frontend = <<>>
        /\ \A i \in 1..Len(adjustments.backend) :
             adjustments.backend[i].type \in {"create_endpoint", "create_model"}
        /\ result.adjustments_needed = adjustments

C4_Witness ==
    /\ SyncDone
    /\ InFrontendMechanism = "JWT"
    /\ InBackendMechanism = "OAuth2"
    /\ InFrontendRoles # <<>>
    /\ ~RolesDiffer
    /\ Len(result.adjustments_needed.critical) = 1
    /\ Len(result.adjustments_needed.backend) > 0

\* C5: every auth finding, mismatch or role_mismatch, puts exactly one adjustment
\* carrying both sides' values in the critical bucket, so the bucket holds as
\* many adjustments as there are auth findings.
C5_EveryAuthFindingIsCritical ==
    SyncDone =>
        /\ Len(adjustments.critical) = Len(AuthFindings)
        /\ \A i \in 1..Len(adjustments.critical) :
             {"frontend", "backend"} \subseteq DOMAIN adjustments.critical[i].details

\* C6: one frontend service whose matching backend endpoint declares the same set
\* of methods, no models and consistent auth: the only finding is api_contract,
\* matched, with the service's name, the endpoint's path and an empty methods
\* diff, and the three buckets are empty.
C6_MatchedPair ==
    (/\ SyncDone
     /\ Len(InServices) = 1
     /\ InModels = <<>>
     /\ ~MechanismsDiffer
     /\ ~RolesDiffer
     /\ EndpointsFor(InServices[1]) # {}
     /\ LET e == InEndpoints[Min(EndpointsFor(InServices[1]))]
        IN  Elems(Get(InServices[1], "methods", <<>>)) = Elems(Get(e, "methods", <<>>)))
    =>
        /\ raised = None
        /\ sync_results =
             << [type |-> "api_contract",
                 status |-> "matched",
                 frontend_service |-> InServices[1]["name"],
                 backend_endpoint |-> InEndpoints[Min(EndpointsFor(InServices[1]))]["path"],
                 methods |-> <<>>] >>
        /\ adjustments = EmptyAdjustments
        /\ result = [sync_results |-> sync_results, adjustments_needed |-> EmptyAdjustments]

C6_Witness ==
    /\ SyncDone
    /\ Len(InServices) = 1
    /\ InServices[1] = [name |-> "UserService", methods |-> <<"GET", "POST">>]
    /\ InEndpoints = << [path |-> "/users", methods |-> <<"POST", "GET">>] >>
    /\ InModels = <<>>
    /\ InFrontendMechanism = "JWT"
    /\ ~MechanismsDiffer
    /\ ~RolesDiffer
    /\ Len(result.sync_results) = 1

\* C9: sync_results is one api_contract finding per frontend service (matched or
\* missing_endpoint), in input order, then one data_model finding per frontend
\* model (matched or missing_model), in input order, then at most two auth
\* findings, mismatch before role_mismatch; nothing comes from backend entries
\* that no frontend entry matches.
C9_SyncResultsConcatenation ==
    SyncDone =>
        LET n == Len(InServices)
            m == Len(InModels)
            k == Len(sync_results) - n - m
        IN  /\ k \in 0..2
            /\ \A i \in 1..n :
                 /\ sync_results[i].type = "api_contract"
                 /\ sync_results[i].status \in {"matched", "missing_endpoint"}
                 /\ sync_results[i].frontend_service = Get(InServices[i], "name", None)
            /\ \A i \in 1..m :
                 /\ sync_results[n + i].type = "data_model"
                 /\ sync_results[n + i].status \in {"matched", "missing_model"}
                 /\ sync_results[n + i].model_name = Get(InModels[i], "name", None)
            /\ \A i \in 1..k : sync_results[n + m + i].type = "auth"
            /\ k = 1 => sync_results[n + m + 1].status \in {"mismatch", "role_mismatch"}
            /\ k = 2 => /\ sync_results[n + m + 1].status = "mismatch"
                        /\ sync_results[n + m + 2].status = "role_mismatch"

C9_Witness ==
    /\ SyncDone
    /\ Len(InServices) = 2
    /\ InServices[1] # InServices[2]
    /\ Len(InModels) = 1
    /\ Len(sync_results) = 5
    /\ Len(InEndpoints) = 2
    /\ \E j \in 1..Len(InEndpoints) : \A i \in 1..Len(InServices) : j \notin EndpointsFor(InServices[i])

\* C10: the statuses method_mismatch and property_mismatch never occur, so no
\* api_method_mismatch or model_property_mismatch adjustment exists: the frontend
\* bucket is empty, the critical bucket holds only adjustments derived from auth
\* findings, and a matched finding with a non-empty diff produces no adjustment.
C10_NoMismatchStatus ==
    SyncDone =>
        /\ \A j \in 1..Len(sync_results) :
             sync_results[j].status \notin {"method_mismatch", "property_mismatch"}
        /\ \A i \in 1..Len(AllAdjustments) :
             AllAdjustments[i].type \notin {"api_method_mismatch", "model_property_mismatch"}
        /\ adjustments.frontend = <<>>
        /\ \A i \in 1..Len(adjustments.critical) :
             adjustments.critical[i].type = "auth_mechanism_mismatch"
        /\ Len(adjustments.critical) <= Len(AuthFindings)
        /\ Len(adjustments.backend) =
             CountIf(LAMBDA r : r.type # "auth" /\ r.status # "matched", sync_results)

C10_Witness ==
    /\ SyncDone
    /\ raised = None
    /\ \E j \in 1..Len(sync_results) :
         sync_results[j].type = "api_contract" /\ sync_results[j].status = "matched"
         /\ sync_results[j].methods # <<>>
    /\ \E j \in 1..Len(sync_results) :
         sync_results[j].type = "data_model" /\ sync_results[j].status = "matched"
         /\ sync_results[j].property_diffs # <<>>
    /\ result.adjustments_needed = EmptyAdjustments

\* ------------------------------------------------------------ properties: extractors

InDesign == Get(inputs, "design", <<>>)

OptionalKeys ==
    {"ui_components", "api_endpoints", "data_models", "services",
     "frontend_dependencies", "backend_dependencies"}

\* C7: for a design with none of the optional keys, and for inputs with no design
\* key, DesignToFrontend returns no tasks, tech_stack "Angular" and no
\* dependencies, DesignToBackend no tasks, tech_stack ".NET Core" and no
\* dependencies; neither raises.
C7_EmptyDesign ==
    (DOMAIN InDesign \cap OptionalKeys = {}) =>
        /\ raised = None
        /\ called = "design_to_frontend" =>
             result = [frontend_tasks |-> <<>>, tech_stack |-> "Angular", dependencies |-> <<>>]
        /\ called = "design_to_backend" =>
             result = [backend_tasks |-> <<>>, tech_stack |-> ".NET Core", dependencies |-> <<>>]

C7_Witness ==
    /\ called = "design_to_backend"
    /\ "design" \in DOMAIN inputs
    /\ DOMAIN InDesign = {"title"}
    /\ result.backend_tasks = <<>>

\* C8: each extractor emits exactly one task per input entry, in input order and
\* without dropping duplicates: DesignToFrontend the component tasks then the
\* service tasks, DesignToBackend the controller tasks, then the model tasks,
\* then the service tasks; the i-th task of a kind carries the fields of the
\* i-th entry, absent list fields becoming empty lists.
C8_OneTaskPerEntry ==
    LET ui == Get(InDesign, "ui_components", <<>>)
        api == Get(InDesign, "api_endpoints", <<>>)
        models == Get(InDesign, "data_models", <<>>)
        services == Get(InDesign, "services", <<>>)
    IN  /\ called = "design_to_frontend" =>
             LET t == result.frontend_tasks
             IN  /\ Len(t) = Len(ui) + Len(api)
                 /\ \A i \in 1..Len(ui) :
                      t[i] = [type |-> "component",
                              name |-> Get(ui[i], "name", None),
                              requirements |-> Get(ui[i], "requirements", <<>>),
                              dependencies |-> Get(ui[i], "dependencies", <<>>)]
                 /\ \A i \in 1..Len(api) :
                      t[Len(ui) + i] = [type |-> "service",
                                        endpoint |-> Get(api[i], "path", None),
                                        method |-> Get(api[i], "method", None),
                                        data_model |-> Get(api[i], "data_model", None)]
        /\ called = "design_to_backend" =>
             LET t == result.backend_tasks
             IN  /\ Len(t) = Len(api) + Len(models) + Len(services)
                 /\ \A i \in 1..Len(api) :
                      t[i] = [type |-> "controller",
                              endpoint |-> Get(api[i], "path", None),
                              method |-> Get(api[i], "method", None),
                              request_model |-> Get(api[i], "request_model", None),
                              response_model |-> Get(api[i], "response_model", None),
                              security |-> Get(api[i], "security", <<>>)]
                 /\ \A i \in 1..Len(models) :
                      /\ t[Len(api) + i].type = "model"
                      /\ t[Len(api) + i].name = Get(models[i], "name", None)
                      /\ t[Len(api) + i].properties =
                           (IF "properties" \in DOMAIN models[i] THEN models[i]["properties"] ELSE <<>>)
                      /\ t[Len(api) + i].validations =
                           (IF "validations" \in DOMAIN models[i] THEN models[i]["validations"] ELSE <<>>)
                      /\ t[Len(api) + i].relationships =
                           (IF "relationships" \in DOMAIN models[i] THEN models[i]["relationships"] ELSE <<>>)
                 /\ \A i \in 1..Len(services) :
                      t[Len(api) + Len(models) + i] =
                          [type |-> "service",
                           name |-> Get(services[i], "name", None),
                           operations |-> Get(services[i], "operations", <<>>),
                           dependencies |-> Get(services[i], "dependencies", <<>>),
                           data_access |-> Get(services[i], "data_access", <<>>)]

C8_Witness ==
    /\ called = "design_to_backend"
    /\ Len(Get(InDesign, "api_endpoints", <<>>)) = 2
    /\ Len(Get(InDesign, "data_models", <<>>)) = 2
    /\ InDesign["data_models"][1] = InDesign["data_models"][2]
    /\ "properties" \notin DOMAIN InDesign["data_models"][1]
    /\ Len(Get(InDesign, "services", <<>>)) = 2
    /\ Len(result.backend_tasks) = 6

====
